---- MODULE Spec2Model ----
(***************************************************************************)
(* Model of the gslog dispatch engine: the logger (dispatcher) with its    *)
(* buffered input channel, its worker goroutine, its handler map, the      *)
(* package-level signalShutdown flag, the messageHandler sink and the      *)
(* facade functions / logger methods that log an entry.                    *)
(***************************************************************************)
EXTENDS Integers, Sequences, FiniteSets, TLC

(***************************************************************************)
(* Bounds of the model.                                                    *)
(***************************************************************************)
\* capacity given to make(chan logEntry, cfg.BufferSize)
BufferSize == 2
\* number of operations started over one behaviour: calls of the logging API
\* and of SetWriter, entries sent on the input channels, closes of an input channel
MaxOps == 3

(***************************************************************************)
(* Levels (src/unnamed/part_004).                                          *)
(***************************************************************************)
FATAL == [Label |-> "FATAL", Importance |-> 9999]
ERROR == [Label |-> "ERROR", Importance |-> 9000]
WARN  == [Label |-> "WARN",  Importance |-> 5000]
INFO  == [Label |-> "INFO",  Importance |-> 2000]
DEBUG == [Label |-> "DEBUG", Importance |-> 42]
TRACE == [Label |-> "TRACE", Importance |-> 10]

Levels == {FATAL, ERROR, WARN, INFO, DEBUG, TRACE}

\* a comparison that also holds between levels of equal importance
isNotMoreThan(lv, comparison) == lv.Importance <= comparison.Importance

isLessThan(lv, comparison) == lv.Importance < comparison.Importance

(***************************************************************************)
(* Identities.                                                             *)
(***************************************************************************)
\* "A" is defaultSlogger (built by init()), "B" a logger built by New(cfg)
Loggers == {"A", "B"}
defaultSlogger == "A"
\* goroutines of the callers of the logging API that can run at the same time
Callers == {"c1", "c2"}
\* the goroutine started by logger.start, one per logger
WorkerOf(l) == IF l = "A" THEN "wA" ELSE "wB"
Workers == {WorkerOf(l) : l \in Loggers}
LoggerOf(w) == CHOOSE l \in Loggers : WorkerOf(l) = w
Threads == Callers \cup Workers

\* io.Writer destinations; "nil" is the nil writer
Writers == {"stderr", "file"}
\* names under which handlers are registered; "" is the default handler
Names == {"", "debug"}

(***************************************************************************)
(* Maps (Go map[string]T) as functions on a finite set of keys.            *)
(***************************************************************************)
EmptyMap == [k \in {} |-> 0]
Put(m, k, v) == [x \in (DOMAIN m) \cup {k} |-> IF x = k THEN v ELSE m[x]]
Del(m, k) == [x \in (DOMAIN m) \ {k} |-> m[x]]
\* maps.Copy(dst, src): every key of src is stored in dst
Copy(dst, src) == [x \in (DOMAIN dst) \cup (DOMAIN src) |->
                      IF x \in DOMAIN src THEN src[x] ELSE dst[x]]

(***************************************************************************)
(* logEntry (src/message.go). A value of the context is the sequence of    *)
(* the characters fmt prints for it; id numbers the entries sent on an     *)
(* input channel (0 for the others); tags is the set of the entry's tags;  *)
(* context is the one map all copies of the entry share.                   *)
(***************************************************************************)
\* the zero Level of logEntry{}
ZeroLevel == [Label |-> "", Importance |-> 0]

\* NewMessage(text, key, value, ...) with its pairs given as the map ctx
NewMessage(ctx) ==
    [id |-> 0, level |-> ZeroLevel, tags |-> {}, sensitive |-> EmptyMap, context |-> ctx]

WithLevel(m, level) == [m EXCEPT !.level = level]
WithTags(m, tags) == [m EXCEPT !.tags = tags]
WithSensitive(m, key, paranoia) == [m EXCEPT !.sensitive = Put(@, key, paranoia)]

NoEntry == WithLevel(NewMessage(EmptyMap), INFO)

\* a mask that covers only the first paranoia characters
obfuscatePartly(val, paranoia) ==
    [i \in 1..Len(val) |-> IF i <= paranoia THEN "?" ELSE val[i]]

\* obfuscate(val, paranoia): one "?" for every character of val
obfuscate(val, paranoia) == [i \in 1..Len(val) |-> "?"]

\* what runtime.Caller(3) gives for m.file, m.funcName, m.lineNum
CallerFields == [file |-> <<"f">>, func |-> <<"g">>, line |-> <<"7">>]

\* the context map after the caller fields are stored (message.go:37-47)
packCaller(m) ==
    IF m.level.Importance <= DEBUG.Importance THEN Copy(m.context, CallerFields)
    ELSE m.context

\* packFields fails on a sensitive key that is empty or absent from the context
packFieldsFails(m) ==
    \E key \in DOMAIN m.sensitive : key = "" \/ key \notin DOMAIN packCaller(m)

\* the context map as packFields(m) leaves it (and returns it in EntryDTO.Context
\* when it succeeds), for an entry with at most one sensitive key
packFields(m) ==
    LET ctx == packCaller(m)
    IN  [key \in DOMAIN ctx |->
            IF key \in DOMAIN m.sensitive THEN obfuscate(ctx[key], m.sensitive[key])
            ELSE ctx[key]]

(***************************************************************************)
(* messageHandler (src/v1/stateless_test.go:84-191).                       *)
(***************************************************************************)
NewHandler(w) ==
    [writter       |-> w,
     formatter     |-> IF w \in {"stderr", "stdout"} THEN "bf" ELSE "nil",
     minLevel      |-> INFO,
     maxLevel      |-> FATAL,
     tagsRequired  |-> {},
     tagsForbidden |-> {},
     autoFields    |-> EmptyMap]

WithMinimumLevel(mh, lv) == [mh EXCEPT !.minLevel = lv]
WithMaximumLevel(mh, lv) == [mh EXCEPT !.maxLevel = lv]
WithTagsRequired(mh, tags) == [mh EXCEPT !.tagsRequired = tags]
WithTagsForbidden(mh, tags) == [mh EXCEPT !.tagsForbidden = tags]
WithFormatter(mh, f) == [mh EXCEPT !.formatter = f]
WithAutoFields(mh, fields) == [mh EXCEPT !.autoFields = fields]

\* Handle returns before maps.Copy: no writer, or the level is outside the range
Rejects(mh, m) ==
    \/ mh.writter = "nil"
    \/ isLessThan(m.level, mh.minLevel)
    \/ isLessThan(mh.maxLevel, m.level)

\* the entry as Handle has it after maps.Copy(m.context, mh.autoFields)
Merged(mh, m) == [m EXCEPT !.context = Copy(m.context, mh.autoFields)]

\* The outcome of mh.Handle(m); wok is whether the destination's Write succeeds.
Handle(mh, m, wok) ==
    IF mh.writter = "nil" THEN "no writer"
    ELSE IF isLessThan(m.level, mh.minLevel) THEN "below miminum level"
    ELSE IF isLessThan(mh.maxLevel, m.level) THEN "above maixmum level"
    ELSE IF packFieldsFails(Merged(mh, m)) THEN "message lost"
    ELSE IF ~wok THEN "failed to write message"
    ELSE "nil"

\* Handle gets as far as mh.writter.Write(data)
Writes(mh, m) == Handle(mh, m, TRUE) = "nil"

\* the context map of the entry, shared with the caller, as Handle leaves it:
\* maps.Copy stores the handler's autoFields in it and packFields stores the
\* caller fields and the masks of the sensitive values
HandleContext(mh, m) ==
    IF Rejects(mh, m) THEN m.context
    ELSE IF packFieldsFails(Merged(mh, m)) THEN packCaller(Merged(mh, m))
    ELSE packFields(Merged(mh, m))

\* the Context of the EntryDTO that Handle renders (through mh.formatter, or as
\* JSON) and hands to mh.writter.Write
HandleData(mh, m) == packFields(Merged(mh, m))

\* a Handle that calls Write again when the call failed
WriteCallsRetried(mh, m, wok) ==
    IF ~Writes(mh, m) THEN <<>>
    ELSE IF wok THEN <<[ok |-> wok, Context |-> HandleData(mh, m)]>>
    ELSE << [ok |-> wok, Context |-> HandleData(mh, m)],
            [ok |-> wok, Context |-> HandleData(mh, m)] >>

\* the calls of mh.writter.Write that Handle(m) makes: none, or one with the
\* rendered entry
WriteCalls(mh, m, wok) ==
    IF Writes(mh, m) THEN <<[ok |-> wok, Context |-> HandleData(mh, m)]>>
    ELSE <<>>

\* a ForceShutdown that flips the flag
ForceShutdownFlips(signal) == ~signal

\* ForceShutdown: signalShutdown = true
ForceShutdown(signal) == TRUE

\* ForceShutdown called whenever Handle reached its Write, failed or not
CallsForceShutdownOnAttempt(mh, m, wok) ==
    Writes(mh, m) /\ m.level.Importance >= FATAL.Importance

\* Handle calls ForceShutdown after a successful write of an entry at or above FATAL
CallsForceShutdown(mh, m, wok) ==
    Handle(mh, m, wok) = "nil" /\ m.level.Importance >= FATAL.Importance

(***************************************************************************)
(* Configuration and New (src/unnamed/part_002, src/slogger.go:47-61).     *)
(***************************************************************************)
\* a default configuration that already names a handler
ConfigurationWithFile ==
    [BufferSize |-> BufferSize, Handlers |-> Put(EmptyMap, "debug", NewHandler("file"))]

DefaultConfiguration == [BufferSize |-> BufferSize, Handlers |-> EmptyMap]

\* the handler of Test_logger_start: only DEBUG entries, to a file
DebugHandler == WithMaximumLevel(WithMinimumLevel(NewHandler("file"), DEBUG), DEBUG)

\* configurations handed to New for logger "B": the one of Test_logger_start,
\* and one with two handlers, one of them under ""
Configurations ==
    { [DefaultConfiguration EXCEPT !.Handlers = Put(EmptyMap, "debug", DebugHandler)],
      [DefaultConfiguration EXCEPT !.Handlers =
            Put(Put(EmptyMap, "debug", NewHandler("file")), "", NewHandler("stderr"))] }

\* for k, h := range cfg.Handlers { delete(l.handlers, ""); l.handlers[k] = h }
\* in every order the map can be ranged over
RECURSIVE NewRange(_, _, _)
NewRange(cfgHandlers, hs, rest) ==
    IF rest = {} THEN {hs}
    ELSE UNION { NewRange(cfgHandlers, Put(Del(hs, ""), k, cfgHandlers[k]), rest \ {k})
                 : k \in rest }

\* a New that does not register the handler for os.Stderr first
NewWithoutDefault(cfg) == NewRange(cfg.Handlers, EmptyMap, DOMAIN cfg.Handlers)

\* the handler maps New(cfg) can build
New(cfg) ==
    NewRange(cfg.Handlers,
             Put(EmptyMap, "", WithFormatter(NewHandler("stderr"), "bf")),
             DOMAIN cfg.Handlers)

(***************************************************************************)
(* Handlers and entries that processMessage is called with directly, as    *)
(* Test_logger_start does (src/unnamed/part_000:23).                       *)
(***************************************************************************)
\* handlers built with NewHandler and the With... methods
SampleHandlers ==
    { NewHandler("file"),
      NewHandler("nil"),
      DebugHandler,
      WithMinimumLevel(NewHandler("file"), WARN),
      WithAutoFields(NewHandler("stderr"), Put(EmptyMap, "app", <<"x">>)),
      WithTagsForbidden(NewHandler("file"), {"secret"}),
      WithTagsRequired(NewHandler("stderr"), {"audit"}) }

\* every cfg.Handlers over the names, filled with those handlers
SampleConfigurations ==
    { [DefaultConfiguration EXCEPT !.Handlers = hs] :
        hs \in UNION { [D -> SampleHandlers] : D \in SUBSET Names } }

\* the handler maps of a logger: built by New, or none for a &logger{}
\* (as defaultSlogger is before init, src/slogger.go:15)
SampleHandlerMaps == {EmptyMap} \cup UNION { New(cfg) : cfg \in SampleConfigurations }

\* entries built with NewMessage, WithLevel, WithTags and at most one WithSensitive
SampleContexts == {EmptyMap, Put(EmptyMap, "user", <<"b", "o", "b">>)}
SampleTags == {{}, {"audit"}, {"secret"}}
SampleEntries ==
    LET plain == { WithTags(WithLevel(NewMessage(ctx), lv), tags) :
                     ctx \in SampleContexts, lv \in Levels, tags \in SampleTags }
    IN  plain \cup { WithSensitive(m, key, 1) : m \in plain, key \in {"user", "pwd", "", "app"} }


(***************************************************************************)
(* Entry points (src/slogger.go:135-201).                                  *)
(***************************************************************************)
LevelOf(name) ==
    CASE name = "Fatal" -> FATAL
      [] name = "Error" -> ERROR
      [] name = "Warn"  -> WARN
      [] name = "Info"  -> INFO
      [] name = "Debug" -> DEBUG
      [] name = "Trace" -> TRACE

LogNames == {"Fatal", "Error", "Warn", "Info", "Debug", "Trace"}

\* api "func": the package-level function; api "method": the method on *logger
NoCall == [api |-> "none", name |-> ""]

\* the logger methods that end with panic(...) after processMessage
MethodPanics(name) == name \in {"Fatal", "Warn", "Info", "Debug", "Trace"}

\* levels of the entries sent on the input channel
SendLevels == {INFO, FATAL}

(***************************************************************************)
(* Construction of entries and levels (src/message.go:68-104,              *)
(* src/unnamed/part_004:34-43). An argument of a constructor is a string   *)
(* or a value of another type, with the characters fmt prints for it.      *)
(***************************************************************************)
\* longest argument list of a constructor call
MaxArgs == 4

\* most builder calls in one chain
MaxChain == 3

StringArg(s) == [type |-> "string", str |-> s, text |-> <<s>>]
IntArg == [type |-> "int", str |-> "", text |-> <<"7">>]
SampleArgs == {StringArg("a"), StringArg("b"), IntArg}

\* the argument lists of at most n arguments
RECURSIVE ArgLists(_)
ArgLists(n) ==
    IF n = 0 THEN {<<>>}
    ELSE LET shorter == ArgLists(n - 1)
         IN  shorter \cup { Append(args, arg) :
                               args \in {a \in shorter : Len(a) = n - 1},
                               arg \in SampleArgs }

\* logEntry{}: no level, and nil tags, sensitive and context (no key in them)
ZeroEntry ==
    [id |-> 0, level |-> ZeroLevel, tags |-> {}, sensitive |-> EmptyMap,
     context |-> EmptyMap]

\* the loop of newMessageSafe from index i on (the first argument has index
\* 0), with the key and the context map it has so far
RECURSIVE newMessageLoop(_, _, _, _)
newMessageLoop(args, i, key, context) ==
    IF i >= Len(args) THEN [err |-> "nil", m |-> NewMessage(context)]
    ELSE LET arg == args[i + 1]
         IN  IF i % 2 = 0
             THEN IF arg.type = "string"
                  THEN newMessageLoop(args, i + 1, arg.str, context)
                  ELSE [err |-> "expect string as a key on even positions of arguments",
                        m |-> ZeroEntry]
             ELSE newMessageLoop(args, i + 1, key, Put(context, key, arg.text))

\* a loop that starts at the second argument
newMessageSafeFromSecond(args) == newMessageLoop(args, 1, "", EmptyMap)

newMessageSafe(args) == newMessageLoop(args, 0, "", EmptyMap)

\* a constructor that drops the error of newMessageSafe
mustNewMessageQuiet(args) == [panics |-> FALSE, m |-> newMessageSafe(args).m]

\* mustNewMessage panics with the error of newMessageSafe
mustNewMessage(args) ==
    LET made1 == newMessageSafe(args)
    IN  [panics |-> made1.err # "nil", m |-> made1.m]

\* a constructor with the upper limit one too low
NewLevelBelowMaximum(label, importance) ==
    IF importance >= 9999
    THEN [panic |-> "maximum importance is 9999", level |-> ZeroLevel]
    ELSE IF importance < 1
         THEN [panic |-> "minimum importance is 1", level |-> ZeroLevel]
         ELSE [panic |-> "nil", level |-> [Label |-> label, Importance |-> importance]]

\* NewLevel panics outside 1..9999
NewLevel(label, importance) ==
    IF importance > 9999
    THEN [panic |-> "maximum importance is 9999", level |-> ZeroLevel]
    ELSE IF importance < 1
         THEN [panic |-> "minimum importance is 1", level |-> ZeroLevel]
         ELSE [panic |-> "nil", level |-> [Label |-> label, Importance |-> importance]]

SampleImportances == {-1, 0, 1, 2, 42, 9998, 9999, 10000, 10001}

\* no constructor was called yet
NothingMade == [op |-> "none"]

\* an entry as its holder has it: the fields of the struct, the sensitive map
\* by its address in the heap (0: the nil map)
Held(m, address) ==
    [level |-> m.level, tags |-> m.tags, context |-> m.context, sensitive |-> address]

\* what the holder of e reads in it when the heap is h
Seen(e, h) ==
    [id |-> 0, level |-> e.level, tags |-> e.tags, context |-> e.context,
     sensitive |-> IF e.sensitive = 0 THEN EmptyMap ELSE h[e.sensitive]]

(***************************************************************************)
(* ProcessFile (src/formatter.go:67-98) and the json.Decoder it reads the  *)
(* file with. A file is a sequence of JSON values: "entry" is an object    *)
(* that decodes into an EntryDTO, "mistyped" is well-formed JSON that does *)
(* not (a field of another type), "broken" is text that is not JSON, or a  *)
(* value the end of the file cuts short.                                   *)
(***************************************************************************)
\* most values in a file
MaxFile == 3

ValueKinds == {"entry", "mistyped", "broken"}

\* the files of at most n values
RECURSIVE Files(_)
Files(n) ==
    IF n = 0 THEN {<<>>}
    ELSE LET shorter == Files(n - 1)
         IN  shorter \cup { Append(f, kind) :
                               f \in {g \in shorter : Len(g) = n - 1},
                               kind \in ValueKinds }

\* json.NewDecoder(reader): nothing read, no error kept
NewDecoder == [read |-> 0, err |-> "nil"]

\* dec.Decode(&e): the decoder after the call and the error returned. An error
\* of the tokenizer (a syntax error, an unexpected end of the input) is kept
\* in the decoder and returned by every later call; a value of the wrong type
\* is consumed and the next call goes on after it.
Decode(d, f) ==
    IF d.err # "nil" THEN [dec |-> d, err |-> d.err]
    ELSE IF d.read >= Len(f) THEN [dec |-> d, err |-> "EOF"]
    ELSE IF f[d.read + 1] = "entry"
         THEN [dec |-> [d EXCEPT !.read = @ + 1], err |-> "nil"]
    ELSE IF f[d.read + 1] = "mistyped"
         THEN [dec |-> [d EXCEPT !.read = @ + 1], err |-> "mistyped"]
    ELSE [dec |-> [d EXCEPT !.err = "broken"], err |-> "broken"]

\* f.Format(e) for the entry that is the i-th value of the file
Format(i) == [formatted |-> i]

\* the strings ProcessFile is to return for file f: one for every value that
\* decodes, in the order of the file
RECURSIVE Formatted(_, _)
Formatted(f, n) ==
    IF n = 0 THEN <<>>
    ELSE IF f[n] = "entry" THEN Append(Formatted(f, n - 1), Format(n))
    ELSE Formatted(f, n - 1)

(***************************************************************************)
(* getFieldInfos and its cache (src/reflect.go:8-55). A slice is named by  *)
(* the type it describes and the run of buildFieldInfos that allocated it. *)
(***************************************************************************)
\* most calls of getFieldInfos by one goroutine
MaxCalls == 2

Goroutines == {"g1", "g2"}

\* the types getFieldInfos is called with, and their kinds
Types == {"Point", "Order", "int"}
IsStruct(t) == t # "int"

\* no slice: nil, or no entry in the cache
NoSlice == [type |-> "", run |-> 0]

\* a goroutine outside getFieldInfos that has called it n times
NotCalling(n) == [at |-> "idle", type |-> "", infos |-> NoSlice, calls |-> n]

(***************************************************************************)
(* The stateful logger (src/v1/stateful.go), the handler that extracts     *)
(* fields from the context (src/v1/handlers.go, src/converters.go), and    *)
(* what log/slog does with the arguments of a log call.                    *)
(*                                                                         *)
(* A value is [kind, text, attrs]: a Go string, an slog group of attrs, or *)
(* an slog.Attr given where a value is expected. An attribute is           *)
(* [key, value]. "" is the zero value of a field; "nil" is what ctx.Value  *)
(* returns for a key the context does not have.                            *)
(***************************************************************************)
\* most Stateful loggers in one run, most state values the callers hold, and
\* most WithAttrs and WithGroup calls on one ContextExtractorHandler
MaxLoggers == 3
MaxStates == 2
MaxDerived == 2

String(s) == [kind |-> "string", text |-> s, attrs |-> <<>>]
GroupValue(as) == [kind |-> "group", text |-> "", attrs |-> as]
SlogAny(key, value) == [key |-> key, value |-> value]

\* slog.Group(key, attrs...) handed on as one argument of a log call
GroupArg(key, as) == [kind |-> "attr", text |-> key, attrs |-> as]

\* log/slog's argsToAttrSlice: a string is a key and takes the next argument
\* as its value, whatever that is; an Attr is taken as it is; a string in the
\* last place has no value
RECURSIVE argsToAttrSlice(_)
argsToAttrSlice(args) ==
    IF args = <<>> THEN <<>>
    ELSE IF args[1].kind = "attr"
         THEN <<SlogAny(args[1].text, GroupValue(args[1].attrs))>>
                 \o argsToAttrSlice(Tail(args))
         ELSE IF Len(args) = 1 THEN <<SlogAny("!BADKEY", args[1])>>
              ELSE <<SlogAny(args[1].text, args[2])>>
                      \o argsToAttrSlice(SubSeq(args, 3, Len(args)))

\* the state type of the samples: struct { Name string; Address struct { City
\* string }; secret string }, by the dotted names of its leaf fields
StateFields == {"Name", "Address.City", "secret"}

\* getFieldInfos for that type: the exported leaf fields, in order
FieldInfos == <<"Name", "Address.City">>

isZeroValue(v) == v = ""

\* a state: a struct of the sample type, or a value of a type without fields
StructState(fs) == [kind |-> "struct", name |-> "Person", fields |-> fs]
StringState == [kind |-> "string", name |-> "string", fields |-> <<>>]
NoState == [kind |-> "nil", name |-> "", fields |-> <<>>]

\* a context: for every key the value stored under it, "x" a string, "#" a
\* value that can neither be assigned nor converted to a string field
ContextKeys == {"Name", "Address.City", "trace_id"}
StdContexts == [ContextKeys -> {"nil", "x", "#"}]
Value(ctx, key) == IF key \in DOMAIN ctx THEN ctx[key] ELSE "nil"

\* ContextField{Key, Extractor}: Extractor "nil", or the key of the context
\* that the extractor function reads
SimpleContextField(key) == [Key |-> key, Extractor |-> "nil"]
ExtractorContextField(key, reads) == [Key |-> key, Extractor |-> reads]
Extract(f, ctx) ==
    IF f.Extractor # "nil" THEN Value(ctx, f.Extractor) ELSE Value(ctx, f.Key)

\* an slog.Logger over the test handler: the ContextExtractorHandlers wrapped
\* around it, outermost first, and the WithAttrs and WithGroup calls that
\* reached the test handler
BaseLogger == [wrappers |-> <<>>, base |-> <<>>]
WrapHandlerWithContext(l, fields, group) ==
    [l EXCEPT !.wrappers = <<[fields |-> fields, group |-> group]>> \o @]
HandlerWithAttrs(l, as) ==
    [l EXCEPT !.base = Append(@, [op |-> "attrs", name |-> "", attrs |-> as])]
HandlerWithGroup(l, name) ==
    [l EXCEPT !.base = Append(@, [op |-> "group", name |-> name, attrs |-> <<>>])]

\* the attributes ContextExtractorHandler.Handle collects (lines 25-36)
RECURSIVE Extracted(_, _)
Extracted(fields, ctx) ==
    IF fields = <<>> THEN <<>>
    ELSE IF Extract(fields[1], ctx) # "nil"
         THEN <<SlogAny(fields[1].Key, String(Extract(fields[1], ctx)))>>
                 \o Extracted(Tail(fields), ctx)
         ELSE Extracted(Tail(fields), ctx)

\* a Handle that adds an attribute for a nil value too
HandleNilToo(h, ctx, r) ==
    <<r \o [i \in 1..Len(h.fields) |->
               SlogAny(h.fields[i].Key, String(Extract(h.fields[i], ctx)))]>>

\* ContextExtractorHandler.Handle(ctx, r): the records handed to h.next.Handle,
\* a record being the sequence of its attributes
ExtractorHandle(h, ctx, r) ==
    IF Extracted(h.fields, ctx) = <<>> THEN <<r>>
    ELSE IF h.group # ""
         THEN <<Append(r, SlogAny(h.group, GroupValue(Extracted(h.fields, ctx))))>>
         ELSE <<r \o Extracted(h.fields, ctx)>>

\* slog.Logger.Log(ctx, level, msg, args...) on l: the records that reach the
\* test handler, each handed down through the wrappers, outermost first
RECURSIVE Through(_, _, _)
Through(wrappers, ctx, rs) ==
    IF wrappers = <<>> THEN rs
    ELSE Through(Tail(wrappers), ctx,
                 IF rs = <<>> THEN <<>>
                 ELSE ExtractorHandle(wrappers[1], ctx, rs[1])
                         \o Through(<<wrappers[1]>>, ctx, Tail(rs)))
LoggerLog(l, ctx, args) ==
    [i \in 1..Len(Through(l.wrappers, ctx, <<argsToAttrSlice(args)>>)) |->
        [base |-> l.base,
         attrs |-> Through(l.wrappers, ctx, <<argsToAttrSlice(args)>>)[i]]]

\* slog.Logger.With(args...) and slog.Logger.WithGroup(name)
LoggerWith(l, args) == HandlerWithAttrs(l, argsToAttrSlice(args))
LoggerWithGroup(l, name) == HandlerWithGroup(l, name)

\* a Stateful[T]: its slog.Logger, the address of its state in the heap of
\* states (0 for a nil pointer), its group name and its zero-field flag
NilState == 0
Stateful(logger, state, groupName, includeZeroFields) ==
    [logger |-> logger, state |-> state, groupName |-> groupName,
     includeZeroFields |-> includeZeroFields]

\* the options of Modify, each setting one field of the logger it is given
WithGroupName(name) == [set |-> "groupName", to |-> name]
WithIncludeZeroFields(include) == [set |-> "includeZeroFields", to |-> include]
Options == {WithGroupName("who"), WithIncludeZeroFields(TRUE)}
Apply(opt, l) ==
    IF opt.set = "groupName" THEN [l EXCEPT !.groupName = opt.to]
    ELSE [l EXCEPT !.includeZeroFields = opt.to]

\* the derivations, each giving the fields of the new Stateful
Modify(l, opt) == Apply(opt, Stateful(l.logger, l.state, l.groupName, l.includeZeroFields))
WithState(l, state) == Stateful(l.logger, state, "", l.includeZeroFields)
UpdateState(l, state) == Stateful(l.logger, state, l.groupName, l.includeZeroFields)
With(l, args) ==
    Stateful(LoggerWith(l.logger, args), l.state, l.groupName, l.includeZeroFields)
WithGroup(l, name) ==
    Stateful(LoggerWithGroup(l.logger, name), l.state, l.groupName, l.includeZeroFields)
WithContextValue(l, key) ==
    Stateful(WrapHandlerWithContext(l.logger, <<SimpleContextField(key)>>, ""),
             l.state, l.groupName, l.includeZeroFields)

\* stateTypeName, st being what the state pointer points to (NoState for nil)
stateTypeName(l, st) ==
    IF l.groupName # "" THEN l.groupName
    ELSE IF st.kind = "nil" THEN "state"
    ELSE IF st.name # "" THEN st.name
    ELSE "state"

\* the loop of appendStateFields over the field infos
RECURSIVE StateAttrs(_, _, _)
StateAttrs(infos, fields, includeZeroFields) ==
    IF infos = <<>> THEN <<>>
    ELSE IF includeZeroFields \/ ~isZeroValue(fields[infos[1]])
         THEN <<SlogAny(infos[1], String(fields[infos[1]]))>>
                 \o StateAttrs(Tail(infos), fields, includeZeroFields)
         ELSE StateAttrs(Tail(infos), fields, includeZeroFields)

appendStateFields(l, st) ==
    IF st.kind = "nil" THEN <<>>
    ELSE IF st.kind # "struct" THEN <<>>
    ELSE StateAttrs(FieldInfos, st.fields, l.includeZeroFields)

\* logWithState: the records that reach the test handler
logWithState(l, st, ctx, args) ==
    IF st.kind = "nil" THEN LoggerLog(l.logger, ctx, args)
    ELSE IF appendStateFields(l, st) = <<>> THEN LoggerLog(l.logger, ctx, args)
    ELSE LoggerLog(l.logger, ctx,
                   Append(args, GroupArg(stateTypeName(l, st), appendStateFields(l, st))))

\* a fill that takes every value the context has, zero field or not
RECURSIVE FilledOver(_, _, _)
FilledOver(infos, fields, ctx) ==
    IF infos = <<>> THEN fields
    ELSE IF Value(ctx, infos[1]) \in {"nil", "#"} THEN FilledOver(Tail(infos), fields, ctx)
    ELSE FilledOver(Tail(infos), [fields EXCEPT ![infos[1]] = Value(ctx, infos[1])], ctx)

\* the loop of MakeStatefulWithContext over the field infos: the fields of the
\* copy
RECURSIVE Filled(_, _, _)
Filled(infos, fields, ctx) ==
    IF infos = <<>> THEN fields
    ELSE IF ~isZeroValue(fields[infos[1]]) THEN Filled(Tail(infos), fields, ctx)
    ELSE IF Value(ctx, infos[1]) \in {"nil", "#"} THEN Filled(Tail(infos), fields, ctx)
    ELSE Filled(Tail(infos), [fields EXCEPT ![infos[1]] = Value(ctx, infos[1])], ctx)

\* the state copy of MakeStatefulWithContext
stateCopy(state, ctx) ==
    IF state.kind = "struct"
    THEN [state EXCEPT !.fields = Filled(FieldInfos, state.fields, ctx)]
    ELSE state

\* a ContextExtractorHandler: next by the WithAttrs and WithGroup calls made on
\* the test handler it wraps
ContextExtractorHandler(next, fields, group) ==
    [next |-> next, fields |-> fields, group |-> group]

\* ContextExtractorHandler.WithGroup and WithAttrs
ExtractorWithGroup(h, name) ==
    ContextExtractorHandler(
        Append(h.next, [op |-> "group", name |-> name, attrs |-> <<>>]), h.fields, h.group)
ExtractorWithAttrs(h, as) ==
    ContextExtractorHandler(
        Append(h.next, [op |-> "attrs", name |-> "", attrs |-> as]), h.fields, h.group)

\* the sampled field lists: none, one key, two keys, and an extractor
\* function followed by a key no context has
SampleFieldLists ==
    {<<>>,
     <<SimpleContextField("trace_id")>>,
     <<SimpleContextField("trace_id"), SimpleContextField("Name")>>,
     <<ExtractorContextField("custom", "trace_id"), SimpleContextField("missing")>>}
SampleRecords == {<<>>, <<SlogAny("k", String("v"))>>}

\* before any log call, and before any call of Handle
NothingEmitted == [l |-> "none"]
NothingHandled == [h |-> "none"]

(***************************************************************************)
(* State.                                                                  *)
(***************************************************************************)
VARIABLES
    handlers,        \* logger.handlers, per logger
    inputChannel,    \* logger.inputChannel: the buffered entries, per logger
    closeCalls,      \* number of close(l.inputChannel) executed, per logger
    closedOutside,   \* the channel was closed by code other than the worker
    forced,          \* the worker took the "forced shutdown" branch, per logger
    mu,              \* logger.mu is locked, per logger
    signalShutdown,  \* the package-level flag
    pc,              \* position of every goroutine
    msg,             \* the entry a goroutine is processing
    lg,              \* the logger a goroutine is operating on
    entry,           \* the entry point a caller is in
    todo,            \* keys the range over l.handlers has still to visit
    processed,       \* processMessage's counter of successful handlers
    err,             \* what processMessage returned
    terminated,      \* the process ended by an unrecovered panic or runtime throw
    sent,            \* number of entries accepted into the input channel, per logger
    calls,           \* calls of the API and closes of an input channel started so far
    pmCalls,         \* ids the worker passed to processMessage, in order, per logger
    hlog,            \* id of the entry of every Handle call of the worker, per logger
    fatalWritten,    \* a handler of the logger wrote an entry of FATAL importance
    given,           \* the context map of the entry as it was when processMessage
                     \* was called with it
    wlog,            \* per handler key: what Handle returned and the calls of Write
                     \* it made, during a goroutine's processMessage
    heap,            \* the sensitive maps allocated so far, by address
    chain,           \* the entries a chain of builder calls has produced, every
                     \* one still held by its reader
    made,            \* the last call of a constructor and what it returned
    file,            \* ProcessFile: the JSON values of the file, in order
    dec,             \* ProcessFile: the json.Decoder (values read, kept error)
    results,         \* ProcessFile: the strings collected so far
    rpc,             \* ProcessFile: position in the function
    rerr,            \* ProcessFile: the err of the last dec.Decode
    cache,           \* the package-level sync.Map: type -> the cached slice
    built,           \* number of runs of buildFieldInfos, per type
    gpc,             \* getFieldInfos: position, argument and locals, per goroutine
    returned,        \* the slices calls of getFieldInfos returned, per type
    statefuls,       \* the Stateful loggers made so far, by address
    states,          \* the state values the callers hold, by address
    emitted,         \* the last log call on a Stateful and the records it emitted
    handler,         \* a ContextExtractorHandler
    handled          \* the last call of its Handle and what the wrapped handler got

vars == <<handlers, inputChannel, closeCalls, closedOutside, forced, mu,
          signalShutdown, pc, msg, lg, entry, todo, processed, err, terminated,
          sent, calls, pmCalls, hlog, fatalWritten, given, wlog, heap, chain, made,
          file, dec, results, rpc, rerr, cache, built, gpc, returned,
          statefuls, states, emitted, handler, handled>>

readerVars == <<file, dec, results, rpc, rerr>>
cacheVars == <<cache, built, gpc, returned>>
statefulVars == <<statefuls, states, emitted>>
extractorVars == <<handler, handled>>
libraryVars == <<readerVars, cacheVars, statefulVars, extractorVars>>

valueVars == <<heap, chain, made>>
dispatchVars == <<handlers, inputChannel, closeCalls, closedOutside, forced, mu,
                  signalShutdown, pc, msg, lg, entry, todo, processed, err,
                  terminated, sent, calls, pmCalls, hlog, fatalWritten, given, wlog>>

chanVars == <<inputChannel, closeCalls, closedOutside>>
histVars == <<pmCalls, hlog, fatalWritten>>

\* operations started so far
OpsStarted == calls + sent["A"] + sent["B"]

\* the state once the loggers are built, but for their handler maps: the
\* channels are empty, the workers wait in their range, no call is under way
DispatchStarted ==
    /\ inputChannel = [l \in Loggers |-> <<>>]
    /\ closeCalls = [l \in Loggers |-> 0]
    /\ closedOutside = [l \in Loggers |-> FALSE]
    /\ forced = [l \in Loggers |-> FALSE]
    /\ mu = [l \in Loggers |-> FALSE]
    /\ signalShutdown = FALSE
    /\ pc = [t \in Threads |-> IF t \in Workers THEN "w_range" ELSE "idle"]
    /\ msg = [t \in Threads |-> NoEntry]
    /\ lg = [t \in Threads |-> IF t \in Workers THEN LoggerOf(t) ELSE defaultSlogger]
    /\ entry = [t \in Threads |-> NoCall]
    /\ todo = [t \in Threads |-> {}]
    /\ processed = [t \in Threads |-> 0]
    /\ err = [t \in Threads |-> "nil"]
    /\ terminated = FALSE
    /\ sent = [l \in Loggers |-> 0]
    /\ calls = 0
    /\ pmCalls = [l \in Loggers |-> <<>>]
    /\ hlog = [l \in Loggers |-> <<>>]
    /\ fatalWritten = [l \in Loggers |-> FALSE]
    /\ given = [t \in Threads |-> NoEntry.context]
    /\ wlog = [t \in Threads |-> EmptyMap]

\* no constructor was called
ValueStarted ==
    /\ heap = <<>>
    /\ chain = <<>>
    /\ made = NothingMade

\* ProcessFile is about to open a file that holds the values f
ReaderStarted(f) ==
    /\ file = f
    /\ dec = NewDecoder
    /\ results = <<>>
    /\ rpc = "open"
    /\ rerr = "nil"

\* no type is cached, no goroutine is in getFieldInfos
CacheStarted ==
    /\ cache = [t \in Types |-> NoSlice]
    /\ built = [t \in Types |-> 0]
    /\ gpc = [g \in Goroutines |-> NotCalling(0)]
    /\ returned = [t \in Types |-> {}]

\* no Stateful made, no state allocated, nothing logged
StatefulStarted ==
    /\ statefuls = <<>>
    /\ states = <<>>
    /\ emitted = NothingEmitted

\* the handler WrapHandlerWithContext(next, fields, group) returned, next
\* being the test handler
ExtractorStarted(fields, group) ==
    /\ handler = ContextExtractorHandler(<<>>, fields, group)
    /\ handled = NothingHandled

Started ==
    /\ DispatchStarted
    /\ ValueStarted
    /\ ReaderStarted(<<>>)
    /\ CacheStarted
    /\ StatefulStarted
    /\ ExtractorStarted(<<>>, "")

Init ==
    /\ \E hA \in New(DefaultConfiguration), cfg \in Configurations :
          \E hB \in New(cfg) :
             handlers = [l \in Loggers |-> IF l = defaultSlogger THEN hA ELSE hB]
    /\ Started

(***************************************************************************)
(* processMessage (src/slogger.go:83-125, src/reflect.go:289-310), run by  *)
(* the worker and by every caller of a logging function.                   *)
(***************************************************************************)
\* a check of the handler map that never finds it empty
NoHandlersNever(hs) == FALSE

\* processMessage returns the "no handlers" error for this handler map
NoHandlers(hs) == DOMAIN hs = {}

\* a loss reported unless two handlers returned nil
LostBelowTwo(n) == n < 2

\* lines 120-124: processMessage returns "message lost: ..." when no Handle returned nil
Lost(n) == n = 0

\* lines 84-88 and the start of the range over l.handlers, for goroutine t
\* called with entry m on logger l
processMessageBegin(t, l, m) ==
    /\ processed' = [processed EXCEPT ![t] = 0]
    /\ given' = [given EXCEPT ![t] = m.context]
    /\ wlog' = [wlog EXCEPT ![t] = EmptyMap]
    /\ IF NoHandlers(handlers[l])
         THEN /\ err' = [err EXCEPT ![t] = "message lost: no handlers"]
              /\ pc' = [pc EXCEPT ![t] = "pm_ret"]
              /\ todo' = [todo EXCEPT ![t] = {}]
         ELSE /\ err' = [err EXCEPT ![t] = "nil"]
              /\ pc' = [pc EXCEPT ![t] = "pm_loop"]
              /\ todo' = [todo EXCEPT ![t] = DOMAIN handlers[l]]

\* one iteration of the range: h.Handle(m) for the handler under key k, wok
\* being the outcome of its Write when it makes one; after the last key, lines
\* 120-124 compute the returned error
processMessageHandle(t, k, wok) ==
    /\ ~terminated
    /\ pc[t] = "pm_loop"
    /\ k \in todo[t]
    /\ k \in DOMAIN handlers[lg[t]]
    /\ ~wok => Writes(handlers[lg[t]][k], msg[t])
    /\ LET mh == handlers[lg[t]][k]
           r == Handle(mh, msg[t], wok)
           n == IF r = "nil" THEN processed[t] + 1 ELSE processed[t]
           rest == todo[t] \ {k}
       IN  /\ processed' = [processed EXCEPT ![t] = n]
           /\ todo' = [todo EXCEPT ![t] = rest]
           /\ msg' = [msg EXCEPT ![t].context = HandleContext(mh, msg[t])]
           /\ wlog' = [wlog EXCEPT ![t] =
                        Put(@, k, [result |-> r, writes |-> WriteCalls(mh, msg[t], wok)])]
           /\ signalShutdown' = IF CallsForceShutdown(mh, msg[t], wok)
                                  THEN ForceShutdown(signalShutdown)
                                  ELSE signalShutdown
           /\ fatalWritten' = IF r = "nil" /\ msg[t].level.Importance >= FATAL.Importance
                                THEN [fatalWritten EXCEPT ![lg[t]] = TRUE]
                                ELSE fatalWritten
           /\ hlog' = IF t \in Workers
                        THEN [hlog EXCEPT ![lg[t]] = Append(@, msg[t].id)]
                        ELSE hlog
           /\ IF rest = {}
                THEN /\ pc' = [pc EXCEPT ![t] = "pm_ret"]
                     /\ err' = [err EXCEPT ![t] = IF Lost(n) THEN "message lost" ELSE "nil"]
                ELSE UNCHANGED <<pc, err>>
    /\ UNCHANGED <<handlers, chanVars, forced, mu, lg, entry, terminated,
                   sent, calls, pmCalls, given>>
    /\ UNCHANGED <<valueVars, libraryVars>>

(***************************************************************************)
(* The logging calls (src/slogger.go:135-201).                             *)
(***************************************************************************)
\* a new call runs on the first goroutine that is free
FirstIdle(c) == pc[c] = "idle" /\ (c = "c2" => pc["c1"] # "idle")

\* the locals of a goroutine once its call is over
Release(c) ==
    /\ msg' = [msg EXCEPT ![c] = NoEntry]
    /\ lg' = [lg EXCEPT ![c] = defaultSlogger]
    /\ entry' = [entry EXCEPT ![c] = NoCall]
    /\ processed' = [processed EXCEPT ![c] = 0]
    /\ err' = [err EXCEPT ![c] = "nil"]
    /\ given' = [given EXCEPT ![c] = NoEntry.context]
    /\ wlog' = [wlog EXCEPT ![c] = EmptyMap]

\* the logger a call operates on: the package-level functions on defaultSlogger
\* (which no code outside the package can name), the methods on a logger got from New
Receiver(api) == IF api = "func" THEN defaultSlogger ELSE "B"

\* NewMessage(msg, context...).WithLevel(level), then processMessage is entered
Log(c, api, name, l) ==
    /\ ~terminated
    /\ FirstIdle(c)
    /\ OpsStarted < MaxOps
    /\ l = Receiver(api)
    /\ calls' = calls + 1
    /\ entry' = [entry EXCEPT ![c] = [api |-> api, name |-> name]]
    /\ msg' = [msg EXCEPT ![c] = WithLevel(NewMessage(EmptyMap), LevelOf(name))]
    /\ lg' = [lg EXCEPT ![c] = l]
    /\ processMessageBegin(c, l, WithLevel(NewMessage(EmptyMap), LevelOf(name)))
    /\ UNCHANGED <<handlers, chanVars, forced, mu, signalShutdown, terminated, sent,
                   histVars>>
    /\ UNCHANGED <<valueVars, libraryVars>>

\* Fatal, Error, Warn, Info, Debug, Trace (lines 135-159) drop the result and return
FuncReturn(c) ==
    /\ ~terminated
    /\ pc[c] = "pm_ret"
    /\ entry[c].api = "func"
    /\ pc' = [pc EXCEPT ![c] = "idle"]
    /\ Release(c)
    /\ UNCHANGED <<handlers, chanVars, forced, mu, signalShutdown, todo, terminated,
                   sent, calls, histVars>>
    /\ UNCHANGED <<valueVars, libraryVars>>

\* logger.Fatal/Warn/Info/Debug/Trace (lines 169-201) end with panic(...);
\* logger.Error (lines 175-178) returns
MethodReturn(c) ==
    /\ ~terminated
    /\ pc[c] = "pm_ret"
    /\ entry[c].api = "method"
    /\ IF MethodPanics(entry[c].name)
         THEN /\ pc' = [pc EXCEPT ![c] = "panicked"]
              /\ terminated' = TRUE
              /\ UNCHANGED <<msg, lg, entry, processed, err, given, wlog>>
         ELSE /\ pc' = [pc EXCEPT ![c] = "idle"]
              /\ Release(c)
              /\ UNCHANGED terminated
    /\ UNCHANGED <<handlers, chanVars, forced, mu, signalShutdown, todo, sent, calls,
                   histVars>>
    /\ UNCHANGED <<valueVars, libraryVars>>

\* l.processMessage(m) called directly on the logger "B" by goroutine c
\* (src/unnamed/part_000:23)
Process(c, m) ==
    /\ ~terminated
    /\ pc[c] = "idle"
    /\ entry' = [entry EXCEPT ![c] = [api |-> "direct", name |-> ""]]
    /\ msg' = [msg EXCEPT ![c] = m]
    /\ lg' = [lg EXCEPT ![c] = "B"]
    /\ processMessageBegin(c, "B", m)
    /\ UNCHANGED <<handlers, chanVars, forced, mu, signalShutdown, terminated, sent,
                   calls, histVars>>
    /\ UNCHANGED <<valueVars, libraryVars>>

\* the direct call returns the error to its caller
ProcessReturn(c) ==
    /\ ~terminated
    /\ pc[c] = "pm_ret"
    /\ entry[c].api = "direct"
    /\ pc' = [pc EXCEPT ![c] = "idle"]
    /\ Release(c)
    /\ UNCHANGED <<handlers, chanVars, forced, mu, signalShutdown, todo, terminated,
                   sent, calls, histVars>>
    /\ UNCHANGED <<valueVars, libraryVars>>

(***************************************************************************)
(* Errorf (src/slogger.go:203-210).                                        *)
(***************************************************************************)
\* what Errorf returns: the error it formatted, or, when processMessage
\* returned loggErr, an error that wraps loggErr
ErrorfResult(loggErr) ==
    IF loggErr # "nil" THEN [err |-> "failed to process error", wraps |-> loggErr]
    ELSE [err |-> "formatted", wraps |-> "nil"]

\* l.Errorf(format, args...) on the logger "B": the entry
\* NewMessage(err.Error()).WithLevel(ERROR) goes to l.processMessage
Errorf(c) ==
    /\ ~terminated
    /\ pc[c] = "idle"
    /\ entry' = [entry EXCEPT ![c] = [api |-> "Errorf", name |-> ""]]
    /\ msg' = [msg EXCEPT ![c] = WithLevel(NewMessage(EmptyMap), ERROR)]
    /\ lg' = [lg EXCEPT ![c] = "B"]
    /\ processMessageBegin(c, "B", WithLevel(NewMessage(EmptyMap), ERROR))
    /\ UNCHANGED <<handlers, chanVars, forced, mu, signalShutdown, terminated, sent,
                   calls, histVars>>
    /\ UNCHANGED <<valueVars, libraryVars>>

\* Errorf returns ErrorfResult(err[c]) to its caller
ErrorfReturn(c) ==
    /\ ~terminated
    /\ pc[c] = "pm_ret"
    /\ entry[c].api = "Errorf"
    /\ pc' = [pc EXCEPT ![c] = "idle"]
    /\ Release(c)
    /\ UNCHANGED <<handlers, chanVars, forced, mu, signalShutdown, todo, terminated,
                   sent, calls, histVars>>
    /\ UNCHANGED <<valueVars, libraryVars>>

(***************************************************************************)
(* SetWriter (src/slogger.go:163-167).                                     *)
(***************************************************************************)
\* line 164: _, ok := defaultSlogger.handlers[""]
SetWriterLookup(c, w) ==
    /\ ~terminated
    /\ FirstIdle(c)
    /\ OpsStarted < MaxOps
    /\ calls' = calls + 1
    /\ IF "" \in DOMAIN handlers[defaultSlogger]
         THEN /\ pc' = [pc EXCEPT ![c] = "sw_store"]
              /\ entry' = [entry EXCEPT ![c] = [api |-> "SetWriter", name |-> w]]
         ELSE UNCHANGED <<pc, entry>>
    /\ UNCHANGED <<handlers, chanVars, forced, mu, signalShutdown, msg, lg, todo,
                   processed, err, terminated, sent, histVars, given, wlog>>
    /\ UNCHANGED <<valueVars, libraryVars>>

\* a range over the map of defaultSlogger is under way in another goroutine
RangeUnderWay(c) ==
    \E t \in Threads \ {c} : pc[t] = "pm_loop" /\ lg[t] = defaultSlogger

\* line 165: defaultSlogger.handlers[""] = NewHandler(w). A map write that
\* overlaps a range of the same map is a data race: the write lands, or the
\* runtime throws "concurrent map iteration and map write" and the process ends.
SetWriterStore(c, throw) ==
    /\ ~terminated
    /\ pc[c] = "sw_store"
    /\ throw => RangeUnderWay(c)
    /\ IF throw
         THEN /\ terminated' = TRUE
              /\ pc' = [pc EXCEPT ![c] = "panicked"]
              /\ UNCHANGED <<handlers, entry>>
         ELSE /\ handlers' = [handlers EXCEPT ![defaultSlogger] =
                                 Put(@, "", NewHandler(entry[c].name))]
              /\ pc' = [pc EXCEPT ![c] = "idle"]
              /\ entry' = [entry EXCEPT ![c] = NoCall]
              /\ UNCHANGED terminated
    /\ UNCHANGED <<chanVars, forced, mu, signalShutdown, msg, lg, todo, processed,
                   err, sent, calls, histVars, given, wlog>>
    /\ UNCHANGED <<valueVars, libraryVars>>

(***************************************************************************)
(* The worker goroutine (src/slogger.go:63-81) and shutdown (127-131).     *)
(***************************************************************************)
\* close(l.inputChannel) panics when the channel is closed already
ClosePanics(l) == closeCalls[l] > 0

\* a receive that takes the newest buffered entry instead of the oldest
ReceivedNewest(ch) == ch[Len(ch)]

\* the entry a receive takes out of the buffer of a channel, and what it leaves
Received(ch) == Head(ch)
Remaining(ch) == Tail(ch)

\* for msg := range l.inputChannel: an entry is received; l.mu.Lock(), which
\* never waits since the worker alone takes l.mu; then processMessage(msg) is entered
WorkerReceive(w) ==
    /\ ~terminated
    /\ pc[w] = "w_range"
    /\ Len(inputChannel[lg[w]]) > 0
    /\ ~mu[lg[w]]
    /\ msg' = [msg EXCEPT ![w] = Received(inputChannel[lg[w]])]
    /\ inputChannel' = [inputChannel EXCEPT ![lg[w]] = Remaining(@)]
    /\ mu' = [mu EXCEPT ![lg[w]] = TRUE]
    /\ processMessageBegin(w, lg[w], Received(inputChannel[lg[w]]))
    /\ pmCalls' = [pmCalls EXCEPT ![lg[w]] = Append(@, Received(inputChannel[lg[w]]).id)]
    /\ UNCHANGED <<handlers, closeCalls, closedOutside, forced, signalShutdown, lg,
                   entry, terminated, sent, calls, hlog, fatalWritten>>
    /\ UNCHANGED <<valueVars, libraryVars>>

\* lines 71-78: the error is printed; if signalShutdown { l.shutdown() };
\* l.mu.Unlock(). A close of the closed channel panics: the goroutine unwinds
\* through the deferred l.shutdown(), whose close panics again, and the process ends
\* with the mutex held.
WorkerCheck(w) ==
    /\ ~terminated
    /\ pc[w] = "pm_ret"
    /\ IF signalShutdown
         THEN /\ forced' = [forced EXCEPT ![lg[w]] = TRUE]
              /\ IF ClosePanics(lg[w])
                   THEN /\ closeCalls' = [closeCalls EXCEPT ![lg[w]] = @ + 2]
                        /\ pc' = [pc EXCEPT ![w] = "panicked"]
                        /\ terminated' = TRUE
                        /\ UNCHANGED mu
                   ELSE /\ closeCalls' = [closeCalls EXCEPT ![lg[w]] = @ + 1]
                        /\ pc' = [pc EXCEPT ![w] = "w_range"]
                        /\ mu' = [mu EXCEPT ![lg[w]] = FALSE]
                        /\ UNCHANGED terminated
         ELSE /\ pc' = [pc EXCEPT ![w] = "w_range"]
              /\ mu' = [mu EXCEPT ![lg[w]] = FALSE]
              /\ UNCHANGED <<forced, closeCalls, terminated>>
    /\ msg' = [msg EXCEPT ![w] = NoEntry]
    /\ processed' = [processed EXCEPT ![w] = 0]
    /\ err' = [err EXCEPT ![w] = "nil"]
    /\ given' = [given EXCEPT ![w] = NoEntry.context]
    /\ wlog' = [wlog EXCEPT ![w] = EmptyMap]
    /\ UNCHANGED <<handlers, inputChannel, closedOutside, signalShutdown, lg, entry,
                   todo, sent, calls, histVars>>
    /\ UNCHANGED <<valueVars, libraryVars>>

\* the range ends (the channel is closed and drained) and the deferred
\* l.shutdown() runs: its close panics when the channel is closed already
WorkerRangeEnds(w) ==
    /\ ~terminated
    /\ pc[w] = "w_range"
    /\ Len(inputChannel[lg[w]]) = 0
    /\ closeCalls[lg[w]] > 0
    /\ closeCalls' = [closeCalls EXCEPT ![lg[w]] = @ + 1]
    /\ IF ClosePanics(lg[w])
         THEN /\ pc' = [pc EXCEPT ![w] = "panicked"]
              /\ terminated' = TRUE
         ELSE /\ pc' = [pc EXCEPT ![w] = "stopped"]
              /\ UNCHANGED terminated
    /\ UNCHANGED <<handlers, inputChannel, closedOutside, forced, mu, signalShutdown,
                   msg, lg, entry, todo, processed, err, sent, calls, histVars,
                   given, wlog>>
    /\ UNCHANGED <<valueVars, libraryVars>>

(***************************************************************************)
(* The producers of the input channel.                                     *)
(***************************************************************************)
\* an entry is sent on l.inputChannel: accepted while the buffer has room,
\* the sender waits otherwise
Enqueue(l, lv) ==
    /\ ~terminated
    /\ OpsStarted < MaxOps
    /\ closeCalls[l] = 0
    /\ Len(inputChannel[l]) < BufferSize
    /\ sent' = [sent EXCEPT ![l] = @ + 1]
    /\ inputChannel' = [inputChannel EXCEPT ![l] =
            Append(@, [WithLevel(NewMessage(EmptyMap), lv) EXCEPT !.id = sent[l] + 1])]
    /\ UNCHANGED <<handlers, closeCalls, closedOutside, forced, mu, signalShutdown,
                   pc, msg, lg, entry, todo, processed, err, terminated, calls, histVars,
                   given, wlog>>
    /\ UNCHANGED <<valueVars, libraryVars>>

\* the input channel is closed by its owner
CloseQueue(l) ==
    /\ ~terminated
    /\ OpsStarted < MaxOps
    /\ closeCalls[l] = 0
    /\ calls' = calls + 1
    /\ closeCalls' = [closeCalls EXCEPT ![l] = 1]
    /\ closedOutside' = [closedOutside EXCEPT ![l] = TRUE]
    /\ UNCHANGED <<handlers, inputChannel, forced, mu, signalShutdown, pc, msg, lg,
                   entry, todo, processed, err, terminated, sent, histVars, given, wlog>>
    /\ UNCHANGED <<valueVars, libraryVars>>

(***************************************************************************)
(* The specification.                                                      *)
(***************************************************************************)
Next ==
    \/ \E c \in Callers, api \in {"func", "method"}, name \in LogNames, l \in Loggers :
          Log(c, api, name, l)
    \/ \E t \in Threads, k \in Names, wok \in BOOLEAN : processMessageHandle(t, k, wok)
    \/ \E c \in Callers : FuncReturn(c)
    \/ \E c \in Callers : MethodReturn(c)
    \/ \E c \in Callers, w \in Writers : SetWriterLookup(c, w)
    \/ \E c \in Callers, throw \in BOOLEAN : SetWriterStore(c, throw)
    \/ \E w \in Workers : WorkerReceive(w)
    \/ \E w \in Workers : WorkerCheck(w)
    \/ \E w \in Workers : WorkerRangeEnds(w)
    \/ \E l \in Loggers, lv \in SendLevels : Enqueue(l, lv)
    \/ \E l \in Loggers : CloseQueue(l)

Spec == Init /\ [][Next]_vars

(***************************************************************************)
(* The goroutines are scheduled fairly; the callers of the API, the        *)
(* senders and the owner of the channel are not obliged to act.            *)
(***************************************************************************)
GoroutineStep ==
    \/ \E t \in Threads, k \in Names, wok \in BOOLEAN : processMessageHandle(t, k, wok)
    \/ \E c \in Callers : FuncReturn(c) \/ MethodReturn(c)
    \/ \E c \in Callers, throw \in BOOLEAN : SetWriterStore(c, throw)
    \/ \E w \in Workers : WorkerReceive(w) \/ WorkerCheck(w) \/ WorkerRangeEnds(w)

FairSpec == Spec /\ WF_vars(GoroutineStep)

(***************************************************************************)
(* processMessage and Handle on their own: one goroutine calls             *)
(* processMessage directly, or through Errorf, one call after the other,   *)
(* on a logger with any of the sample handler maps and with any of the     *)
(* sample entries.                                                         *)
(***************************************************************************)
HandleInit ==
    /\ \E hA \in New(DefaultConfiguration), hB \in SampleHandlerMaps :
             handlers = [l \in Loggers |-> IF l = defaultSlogger THEN hA ELSE hB]
    /\ Started

HandleNext ==
    \/ \E m \in SampleEntries : Process("c1", m)
    \/ \E k \in Names, wok \in BOOLEAN : processMessageHandle("c1", k, wok)
    \/ ProcessReturn("c1")
    \/ Errorf("c1")
    \/ ErrorfReturn("c1")

HandleSpec == HandleInit /\ [][HandleNext]_vars

(***************************************************************************)
(* The constructors and the builders on their own: one call of a           *)
(* constructor, then a chain of builder calls, each on the entry the       *)
(* constructor or an earlier builder call returned; every entry returned   *)
(* stays with the code that received it.                                   *)
(***************************************************************************)
\* NewMessageSafe(text, args...) and NewMessage(text, args...) with the same
\* arguments
Construct(args) ==
    /\ made = NothingMade
    /\ made' = [op |-> "NewMessage", args |-> args, safe |-> newMessageSafe(args),
                must |-> mustNewMessage(args)]
    /\ chain' = IF newMessageSafe(args).err = "nil"
                THEN <<Held(newMessageSafe(args).m, 0)>>
                ELSE <<>>
    /\ heap' = <<>>
    /\ UNCHANGED <<dispatchVars, libraryVars>>

NewLevelCall(label, importance) ==
    /\ made = NothingMade
    /\ made' = [op |-> "NewLevel", label |-> label, importance |-> importance,
                result |-> NewLevel(label, importance)]
    /\ chain' = <<>>
    /\ heap' = <<>>
    /\ UNCHANGED <<dispatchVars, libraryVars>>

\* chain[i].WithLevel(level): the receiver is a copy of the struct
WithLevelCall(i, level) ==
    /\ i \in 1..Len(chain)
    /\ Len(chain) <= MaxChain
    /\ chain' = Append(chain, Held(WithLevel(Seen(chain[i], heap), level),
                                   chain[i].sensitive))
    /\ UNCHANGED <<dispatchVars, heap, made, libraryVars>>

WithTagsCall(i, tags) ==
    /\ i \in 1..Len(chain)
    /\ Len(chain) <= MaxChain
    /\ chain' = Append(chain, Held(WithTags(Seen(chain[i], heap), tags),
                                   chain[i].sensitive))
    /\ UNCHANGED <<dispatchVars, heap, made, libraryVars>>

\* chain[i].WithSensitive(key, paranoia): a nil map is replaced by a new one
\* in the copy, any other map is the receiver's own and is stored into
WithSensitiveCall(i, key, paranoia) ==
    /\ i \in 1..Len(chain)
    /\ Len(chain) <= MaxChain
    /\ IF chain[i].sensitive = 0
       THEN /\ heap' = Append(heap, Put(EmptyMap, key, paranoia))
            /\ chain' = Append(chain, [chain[i] EXCEPT !.sensitive = Len(heap) + 1])
       ELSE /\ heap' = [heap EXCEPT ![chain[i].sensitive] = Put(@, key, paranoia)]
            /\ chain' = Append(chain, chain[i])
    /\ UNCHANGED <<dispatchVars, made, libraryVars>>

ValueInit ==
    /\ \E hA \in New(DefaultConfiguration) :
             handlers = [l \in Loggers |-> hA]
    /\ Started

ValueNext ==
    \/ \E args \in ArgLists(MaxArgs) : Construct(args)
    \/ \E importance \in SampleImportances : NewLevelCall("NOTICE", importance)
    \/ \E i \in 1..MaxChain, level \in {ERROR} : WithLevelCall(i, level)
    \/ \E i \in 1..MaxChain, tags \in {{"audit"}} : WithTagsCall(i, tags)
    \/ \E i \in 1..MaxChain, key \in {"a", "b"}, paranoia \in {1} :
          WithSensitiveCall(i, key, paranoia)

ValueSpec == ValueInit /\ [][ValueNext]_vars

(***************************************************************************)
(* ProcessFile on its own, on any file of at most MaxFile values. The      *)
(* goroutine that runs it is scheduled fairly.                             *)
(***************************************************************************)
\* lines 71-75: os.Open(path)
ProcessFileOpen(ok) ==
    /\ rpc = "open"
    /\ IF ok THEN /\ rpc' = "decode"
                  /\ rerr' = rerr
             ELSE /\ rpc' = "returned"
                  /\ rerr' = "failed to open file"
    /\ UNCHANGED <<dispatchVars, valueVars, file, dec, results, cacheVars,
                 statefulVars, extractorVars>>

\* line 85: err := dec.Decode(&e)
ProcessFileDecode ==
    /\ rpc = "decode"
    /\ dec' = Decode(dec, file).dec
    /\ rerr' = Decode(dec, file).err
    /\ rpc' = "decoded"
    /\ UNCHANGED <<dispatchVars, valueVars, file, results, cacheVars,
                 statefulVars, extractorVars>>

\* lines 86-94: break at io.EOF, continue at any other error, append otherwise
ProcessFileLoop ==
    /\ rpc = "decoded"
    /\ IF rerr = "EOF"
       THEN /\ rpc' = "returned"
            /\ rerr' = "nil"
            /\ UNCHANGED results
       ELSE IF rerr # "nil"
            THEN /\ rpc' = "decode"
                 /\ UNCHANGED <<results, rerr>>
            ELSE /\ results' = Append(results, Format(dec.read))
                 /\ rpc' = "decode"
                 /\ UNCHANGED rerr
    /\ UNCHANGED <<dispatchVars, valueVars, file, dec, cacheVars,
                 statefulVars, extractorVars>>

FileInit ==
    /\ \E hA \in New(DefaultConfiguration) :
             handlers = [l \in Loggers |-> hA]
    /\ DispatchStarted
    /\ ValueStarted
    /\ \E f \in Files(MaxFile) : ReaderStarted(f)
    /\ CacheStarted
    /\ StatefulStarted
    /\ ExtractorStarted(<<>>, "")

FileNext ==
    \/ \E ok \in BOOLEAN : ProcessFileOpen(ok)
    \/ ProcessFileDecode
    \/ ProcessFileLoop

FileSpec == FileInit /\ [][FileNext]_vars /\ WF_vars(FileNext)

(***************************************************************************)
(* getFieldInfos called by several goroutines, each step of the function   *)
(* on its own: the load of the cache, the run of collectFields and         *)
(* buildFieldInfos, the store and the return.                              *)
(***************************************************************************)
\* lines 42-47: a type that is not a struct gives nil; a type found in the
\* cache gives the cached slice; any other type is to be built
GetFieldInfosLoad(g, t) ==
    /\ gpc[g].at = "idle"
    /\ gpc[g].calls < MaxCalls
    /\ IF ~IsStruct(t)
       THEN /\ gpc' = [gpc EXCEPT ![g] = NotCalling(@.calls + 1)]
            /\ returned' = [returned EXCEPT ![t] = @ \cup {NoSlice}]
       ELSE IF cache[t] # NoSlice
            THEN /\ gpc' = [gpc EXCEPT ![g] = NotCalling(@.calls + 1)]
                 /\ returned' = [returned EXCEPT ![t] = @ \cup {cache[t]}]
            ELSE /\ gpc' = [gpc EXCEPT ![g] = [at |-> "build", type |-> t,
                                               infos |-> NoSlice, calls |-> @.calls + 1]]
                 /\ UNCHANGED returned
    /\ UNCHANGED <<dispatchVars, valueVars, readerVars, cache, built,
                 statefulVars, extractorVars>>

\* lines 48-49: collectFields and buildFieldInfos allocate a new slice
GetFieldInfosBuild(g) ==
    /\ gpc[g].at = "build"
    /\ built' = [built EXCEPT ![gpc[g].type] = @ + 1]
    /\ gpc' = [gpc EXCEPT ![g].at = "store",
                          ![g].infos = [type |-> gpc[g].type,
                                        run |-> built[gpc[g].type] + 1]]
    /\ UNCHANGED <<dispatchVars, valueVars, readerVars, cache, returned,
                 statefulVars, extractorVars>>

\* lines 50-54: cache.Store(t, ...) and return infos
GetFieldInfosStore(g) ==
    /\ gpc[g].at = "store"
    /\ cache' = [cache EXCEPT ![gpc[g].type] = gpc[g].infos]
    /\ returned' = [returned EXCEPT ![gpc[g].type] = @ \cup {gpc[g].infos}]
    /\ gpc' = [gpc EXCEPT ![g] = NotCalling(@.calls)]
    /\ UNCHANGED <<dispatchVars, valueVars, readerVars, built,
                 statefulVars, extractorVars>>

CacheInit ==
    /\ \E hA \in New(DefaultConfiguration) :
             handlers = [l \in Loggers |-> hA]
    /\ Started

CacheNext ==
    \/ \E g \in Goroutines, t \in Types : GetFieldInfosLoad(g, t)
    \/ \E g \in Goroutines : GetFieldInfosBuild(g)
    \/ \E g \in Goroutines : GetFieldInfosStore(g)

CacheSpec == CacheInit /\ [][CacheNext]_vars

(***************************************************************************)
(* The stateful logger, src/v1/stateful.go. The callers hold state values  *)
(* and hand pointers to them to the loggers; the loggers are made by       *)
(* MakeStateful and MakeStatefulWithContext and derived from one another.  *)
(***************************************************************************)
Addresses == 1..Len(states)
Pointers == {NilState} \cup Addresses
Deref(heap2, a) == IF a = NilState THEN NoState ELSE heap2[a]

\* the arguments of the sampled log calls: none, a key with its value, a key
\* alone
LogArgs == {<<>>, <<String("k"), String("v")>>, <<String("user")>>}
LogContexts == {ctx \in StdContexts : ctx["Name"] = "nil" /\ ctx["Address.City"] = "nil"
                                        /\ ctx["trace_id"] = "x"}

\* a caller declares a state value: a struct with its fields zero but for
\* the unexported one, or a string
Allocate(st) ==
    /\ Len(states) < MaxStates
    /\ states' = Append(states, st)
    /\ UNCHANGED <<dispatchVars, valueVars, readerVars, cacheVars, statefuls,
                   emitted, extractorVars>>

\* a caller assigns to a field of a state value it holds
SetField(a, f) ==
    /\ a \in Addresses
    /\ states[a].kind = "struct"
    /\ states[a].fields[f] = ""
    /\ states' = [states EXCEPT ![a].fields[f] = "a"]
    /\ UNCHANGED <<dispatchVars, valueVars, readerVars, cacheVars, statefuls,
                   emitted, extractorVars>>

\* a derivation or constructor returns the address of a new Stateful
Returns(l) ==
    /\ Len(statefuls) < MaxLoggers
    /\ statefuls' = Append(statefuls, l)

MakeStatefulCall(p) ==
    /\ statefuls = <<>>
    /\ p \in Pointers
    /\ Returns(Stateful(BaseLogger, p, "", FALSE))
    /\ UNCHANGED <<dispatchVars, valueVars, readerVars, cacheVars, states,
                   emitted, extractorVars>>

\* MakeStatefulWithContext(ctx, l, state), state being the caller's value at a
MakeStatefulWithContextCall(a, ctx) ==
    /\ a \in Addresses
    /\ Len(states) < MaxStates
    /\ states' = Append(states, stateCopy(states[a], ctx))
    /\ Returns(Stateful(BaseLogger, Len(states) + 1, "", FALSE))
    /\ UNCHANGED <<dispatchVars, valueVars, readerVars, cacheVars, emitted,
                   extractorVars>>

\* a Modify that applies the option to the logger it was given
ModifyInPlace(i, opt) ==
    /\ Len(statefuls) < MaxLoggers
    /\ statefuls' = Append([statefuls EXCEPT ![i] = Apply(opt, @)],
                           Apply(opt, statefuls[i]))

ModifyReturns(i, opt) ==
    Returns(Modify(statefuls[i], opt))

ModifyCall(i, opt) ==
    /\ i \in 1..Len(statefuls)
    /\ ModifyReturns(i, opt)
    /\ UNCHANGED <<dispatchVars, valueVars, readerVars, cacheVars, states,
                   emitted, extractorVars>>

WithStateCall(i, p) ==
    /\ i \in 1..Len(statefuls)
    /\ p \in Pointers
    /\ Returns(WithState(statefuls[i], p))
    /\ UNCHANGED <<dispatchVars, valueVars, readerVars, cacheVars, states,
                   emitted, extractorVars>>

UpdateStateCall(i, p) ==
    /\ i \in 1..Len(statefuls)
    /\ p \in Pointers
    /\ Returns(UpdateState(statefuls[i], p))
    /\ UNCHANGED <<dispatchVars, valueVars, readerVars, cacheVars, states,
                   emitted, extractorVars>>

WithCall(i, args) ==
    /\ i \in 1..Len(statefuls)
    /\ Returns(With(statefuls[i], args))
    /\ UNCHANGED <<dispatchVars, valueVars, readerVars, cacheVars, states,
                   emitted, extractorVars>>

WithGroupCall(i, name) ==
    /\ i \in 1..Len(statefuls)
    /\ Returns(WithGroup(statefuls[i], name))
    /\ UNCHANGED <<dispatchVars, valueVars, readerVars, cacheVars, states,
                   emitted, extractorVars>>

WithContextValueCall(i, key) ==
    /\ i \in 1..Len(statefuls)
    /\ Returns(WithContextValue(statefuls[i], key))
    /\ UNCHANGED <<dispatchVars, valueVars, readerVars, cacheVars, states,
                   emitted, extractorVars>>

\* Info, Debug, Warn, Error and their Context forms on the logger at i: one
\* call of logWithState
LogWithStateCall(i, ctx, args) ==
    /\ i \in 1..Len(statefuls)
    /\ emitted' = [l |-> statefuls[i], st |-> Deref(states, statefuls[i].state),
                   ctx |-> ctx, args |-> args,
                   out |-> logWithState(statefuls[i], Deref(states, statefuls[i].state),
                                        ctx, args)]
    /\ UNCHANGED <<dispatchVars, valueVars, readerVars, cacheVars, statefuls,
                   states, extractorVars>>

Derivation ==
    \/ \E i \in 1..MaxLoggers, opt \in Options : ModifyCall(i, opt)
    \/ \E i \in 1..MaxLoggers, p \in 0..MaxStates : WithStateCall(i, p)
    \/ \E i \in 1..MaxLoggers, p \in 0..MaxStates : UpdateStateCall(i, p)
    \/ \E i \in 1..MaxLoggers : WithCall(i, <<String("k"), String("v")>>)
    \/ \E i \in 1..MaxLoggers : WithGroupCall(i, "app")
    \/ \E i \in 1..MaxLoggers : WithContextValueCall(i, "trace_id")

StatefulInit ==
    /\ \E hA \in New(DefaultConfiguration) :
             handlers = [l \in Loggers |-> hA]
    /\ Started

StatefulNext ==
    \/ \E st \in {StructState([f \in StateFields |-> IF f = "secret" THEN "a" ELSE ""]),
                  StringState} : Allocate(st)
    \/ \E a \in 1..MaxStates, f \in {"Name", "Address.City"} : SetField(a, f)
    \/ \E p \in 0..MaxStates : MakeStatefulCall(p)
    \/ \E a \in 1..MaxStates, ctx \in StdContexts : MakeStatefulWithContextCall(a, ctx)
    \/ Derivation
    \/ \E i \in 1..MaxLoggers, ctx \in LogContexts, args \in LogArgs :
          LogWithStateCall(i, ctx, args)

StatefulSpec == StatefulInit /\ [][StatefulNext]_vars

(***************************************************************************)
(* ContextExtractorHandler, src/v1/handlers.go: a handler made by          *)
(* WrapHandlerWithContext, handlers derived from it, and calls of Handle.  *)
(***************************************************************************)
ExtractorWithAttrsCall(as) ==
    /\ Len(handler.next) < MaxDerived
    /\ handler' = ExtractorWithAttrs(handler, as)
    /\ UNCHANGED <<dispatchVars, valueVars, readerVars, cacheVars, statefulVars,
                   handled>>

ExtractorWithGroupCall(name) ==
    /\ Len(handler.next) < MaxDerived
    /\ handler' = ExtractorWithGroup(handler, name)
    /\ UNCHANGED <<dispatchVars, valueVars, readerVars, cacheVars, statefulVars,
                   handled>>

\* Handle(ctx, r): what h.next.Handle was called with
HandleCall(ctx, r) ==
    /\ handled' = [h |-> handler, ctx |-> ctx, r |-> r,
                   out |-> ExtractorHandle(handler, ctx, r)]
    /\ UNCHANGED <<dispatchVars, valueVars, readerVars, cacheVars, statefulVars,
                   handler>>

ExtractorInit ==
    /\ \E hA \in New(DefaultConfiguration) :
             handlers = [l \in Loggers |-> hA]
    /\ DispatchStarted
    /\ ValueStarted
    /\ ReaderStarted(<<>>)
    /\ CacheStarted
    /\ StatefulStarted
    /\ \E fields \in SampleFieldLists, group \in {"", "ctx"} :
          ExtractorStarted(fields, group)

ExtractorNext ==
    \/ ExtractorWithAttrsCall(<<SlogAny("k", String("v"))>>)
    \/ ExtractorWithGroupCall("app")
    \/ \E ctx \in StdContexts, r \in SampleRecords : HandleCall(ctx, r)

ExtractorSpec == ExtractorInit /\ [][ExtractorNext]_vars

(***************************************************************************)
(* Properties.                                                             *)
(***************************************************************************)
\* goroutines inside the range over the handlers of logger l
Ranging(l) == {t \in Threads : pc[t] = "pm_loop" /\ lg[t] = l}

\* C1: on one dispatcher no two processMessage executions are invoking
\* handlers at the same time.
C1_MutualExclusion == \A l \in Loggers : Cardinality(Ranging(l)) <= 1

\* C2: the replacement of the default handler by SetWriter never overlaps an
\* iteration over the handler set in processMessage.
C2_NoOverlapWithSetWriter ==
    \A c \in Callers : pc[c] = "sw_store" => ~RangeUnderWay(c)

NonDecreasing(s) == \A i \in 1..(Len(s) - 1) : s[i] <= s[i + 1]

\* C3: entries accepted into a dispatcher's queue are passed to processMessage
\* in the order they were accepted, one at a time, and every Handle call for an
\* earlier entry comes before any Handle call for a later one.
C3_FIFO ==
    \A l \in Loggers :
        /\ \A i \in 1..Len(pmCalls[l]) : pmCalls[l][i] = i
        /\ NonDecreasing(hlog[l])
        /\ \A i \in 1..Len(hlog[l]) : hlog[l][i] <= Len(pmCalls[l])

\* C3 witness: the worker of a logger with two handlers has handled two entries
C3_Witness ==
    \E l \in Loggers : Len(hlog[l]) = 4 /\ hlog[l][1] = 1 /\ hlog[l][4] = 2

\* C4: a dispatcher's input channel is closed at most once and no shutdown
\* trigger makes the worker fail.
C4_ShutdownIdempotent ==
    \A l \in Loggers : closeCalls[l] <= 1 /\ pc[WorkerOf(l)] # "panicked"

\* the worker of l has left Running: the channel is closed or the process is over
LeftRunning(l) == closeCalls[l] > 0 \/ terminated

\* C5: once a handler of a dispatcher has written a FATAL entry, the
\* dispatcher's worker eventually performs the shutdown transition.
C5_FatalLeadsToShutdown ==
    \A l \in Loggers : fatalWritten[l] ~> LeftRunning(l)

\* a FATAL entry that a handler has written is still to be handed to other handlers
FatalDeliveryUnderWay ==
    \E t \in Threads : /\ pc[t] = "pm_loop"
                       /\ msg[t].level.Importance >= FATAL.Importance
                       /\ processed[t] > 0

\* the worker takes the "forced shutdown" branch in this step
ForcedShutdownStep ==
    \E w \in Workers : pc[w] = "pm_ret" /\ pc'[w] # "pm_ret" /\ signalShutdown

\* logger.Fatal raises its panic in this step
FatalPanicStep(c) ==
    pc[c] # "panicked" /\ pc'[c] = "panicked" /\ entry[c].name = "Fatal"

\* C6: the forced shutdown of a worker, and the panic of logger.Fatal, happen
\* only when no FATAL entry is part-way through the handler set.
C6_EscalationAfterDelivery ==
    [][ /\ ForcedShutdownStep => ~FatalDeliveryUnderWay
        /\ \A c \in Callers : FatalPanicStep(c) => todo[c] = {} ]_vars

\* C7: a logging call below FATAL never panics.
C7_OnlyFatalEndsProgram ==
    \A c \in Callers :
        (pc[c] = "panicked" /\ entry[c].api \in {"func", "method"})
            => entry[c].name = "Fatal"

\* C8: a FATAL logging call terminates only if some handler delivered the entry.
C8_FatalEscalatesOnlyIfDelivered ==
    \A c \in Callers :
        (pc[c] = "panicked" /\ entry[c].api \in {"func", "method"}
            /\ entry[c].name = "Fatal") => processed[c] > 0

\* the worker of l shut its dispatcher down or stopped
WorkerShutDown(l) == forced[l] \/ pc[WorkerOf(l)] \in {"stopped", "panicked"}

\* C9: a worker shuts down only after a handler of its own dispatcher wrote a
\* FATAL entry or its own input channel was closed.
C9_ShutdownScoped ==
    \A l \in Loggers : WorkerShutDown(l) => (fatalWritten[l] \/ closedOutside[l])

\* number of times the worker of l passed entry id to processMessage
TimesProcessed(l, id) == Cardinality({i \in 1..Len(pmCalls[l]) : pmCalls[l][i] = id})

\* C10: the queue never holds more than BufferSize entries, no entry is passed
\* to processMessage twice, and once the worker is over every accepted entry
\* has been passed to processMessage.
C10_BackPressureNoLoss ==
    \A l \in Loggers :
        /\ Len(inputChannel[l]) <= BufferSize
        /\ \A id \in 1..sent[l] : TimesProcessed(l, id) <= 1
        /\ pc[WorkerOf(l)] \in {"stopped", "panicked"}
              => \A id \in 1..sent[l] : TimesProcessed(l, id) = 1

\* C11: once the input channel of a running logger has been closed by its
\* owner, the worker processes what is buffered and ends without a failure:
\* it reaches "stopped".
C11_CleanStop ==
    \A l \in Loggers : closedOutside[l] ~> (pc[WorkerOf(l)] = "stopped")

(***************************************************************************)
(* Properties of processMessage and Handle.                                *)
(***************************************************************************)
\* goroutine t is inside processMessage
InProcess(t) == pc[t] \in {"pm_loop", "pm_ret"}

\* the entry processMessage was called with by goroutine t, as it was then
Given(t) == [msg[t] EXCEPT !.context = given[t]]

\* the handler registered under key k on the logger goroutine t operates on
HandlerAt(t, k) == handlers[lg[t]][k]

\* the keys whose Handle returned nil during the processMessage of goroutine t
Accepted(t) == {k \in DOMAIN wlog[t] : wlog[t][k].result = "nil"}

\* number of successful Write calls on destination w during the processMessage of t
WritesTo(t, w) ==
    Cardinality({ <<k, i>> \in (DOMAIN wlog[t]) \X (1..2) :
                    /\ i <= Len(wlog[t][k].writes)
                    /\ wlog[t][k].writes[i].ok
                    /\ HandlerAt(t, k).writter = w })

InRange(mh, m) ==
    /\ mh.minLevel.Importance <= m.level.Importance
    /\ m.level.Importance <= mh.maxLevel.Importance

WriteFailedStep(t, k) ==
    /\ k \notin DOMAIN wlog[t]
    /\ k \in DOMAIN wlog'[t]
    /\ wlog'[t][k].writes # <<>>
    /\ ~wlog'[t][k].writes[1].ok

\* C16: a Handle whose Write fails returns "failed to write message", has made
\* that one call of Write only, and leaves signalShutdown as it was.
C16_WriteFailure ==
    [][ \A t \in Threads, k \in Names :
            WriteFailedStep(t, k) =>
                /\ wlog'[t][k].result = "failed to write message"
                /\ Len(wlog'[t][k].writes) = 1
                /\ signalShutdown' = signalShutdown ]_vars

\* C16 witness: the Write of a FATAL entry failed and signalShutdown is not set
C16_Witness ==
    \E k \in DOMAIN wlog["c1"] :
        /\ Given("c1").level = FATAL
        /\ wlog["c1"][k].result = "failed to write message"
        /\ ~signalShutdown

\* a Handle of goroutine t, in this step, returned nil for an entry whose
\* importance is at least FATAL's
FatalWriteStep(t) ==
    \E k \in Names :
        /\ k \notin DOMAIN wlog[t]
        /\ k \in DOMAIN wlog'[t]
        /\ wlog'[t][k].result = "nil"
        /\ Len(wlog'[t][k].writes) = 1 /\ wlog'[t][k].writes[1].ok
        /\ msg[t].level.Importance >= 9999

C18_HandleLeavesEntryUnchanged ==
    \A t \in Threads : InProcess(t) => msg[t].context = given[t]

\* C19: what a handler writes for an entry does not depend on the handlers that
\* were given the entry before it: it is what the handler writes when it is
\* handed the entry as the caller built it.
C19_HandlersIndependent ==
    \A t \in Threads : \A k \in DOMAIN wlog[t] :
        \A i \in 1..Len(wlog[t][k].writes) :
            wlog[t][k].writes[i].Context = HandleData(HandlerAt(t, k), Given(t))

\* the entry carries a tag the handler forbids, or lacks a tag it requires
TagsExclude(mh, m) ==
    \/ mh.tagsForbidden \cap m.tags # {}
    \/ ~(mh.tagsRequired \subseteq m.tags)

\* C20: a handler rejects, with an error and without a Write, every entry that
\* carries one of its forbidden tags or lacks one of its required tags.
C20_TagFilters ==
    \A t \in Threads : \A k \in DOMAIN wlog[t] :
        TagsExclude(HandlerAt(t, k), Given(t)) =>
            (wlog[t][k].result # "nil" /\ wlog[t][k].writes = <<>>)

\* the level, the tags and the sensitive keys the holder of e reads in it
Kept(e, h) ==
    [level |-> Seen(e, h).level, tags |-> Seen(e, h).tags,
     keys |-> DOMAIN Seen(e, h).sensitive]

\* C21: the builders have value semantics: a call of WithLevel, WithTags or
\* WithSensitive, anywhere in a chain, returns a copy and leaves every entry
\* returned before it, the receiver among them, with the level, the tags and
\* the sensitive keys it had before the call.
C21_BuildersValueSemantics ==
    [][\A i \in 1..Len(chain) : Kept(chain[i], heap') = Kept(chain[i], heap)]_vars

\* the positions of the keys in an argument list (the first argument is args[1])
KeyPositions(args) == {j \in 1..Len(args) : j % 2 = 1}

\* args alternates distinct string keys and values
Alternates(args) ==
    /\ Len(args) % 2 = 0
    /\ \A j \in KeyPositions(args) : args[j].type = "string"
    /\ \A i, j \in KeyPositions(args) : args[i].str = args[j].str => i = j

C24_TrailingKeyRejected ==
    (made.op = "NewMessage" /\ Len(made.args) % 2 = 1) => made.safe.err # "nil"

\* C27: NewLevel(label, importance) fails for every importance below 1 or
\* above 9999, and for every importance from 1 to 9999 returns the level with
\* that label and that importance; the six predefined levels are in that range,
\* in the order TRACE < DEBUG < INFO < WARN < ERROR < FATAL = 9999.
C27_NewLevelRange ==
    /\ made.op = "NewLevel" =>
          IF made.importance < 1 \/ made.importance > 9999
          THEN made.result.panic # "nil"
          ELSE /\ made.result.panic = "nil"
               /\ made.result.level.Label = made.label
               /\ made.result.level.Importance = made.importance
    /\ \A lv \in Levels : lv.Importance \in 1..9999
    /\ isLessThan(TRACE, DEBUG) /\ isLessThan(DEBUG, INFO) /\ isLessThan(INFO, WARN)
    /\ isLessThan(WARN, ERROR) /\ isLessThan(ERROR, FATAL)
    /\ FATAL.Importance = 9999

\* NewLevel was called with the largest importance it accepts
C27_Witness ==
    /\ made.op = "NewLevel"
    /\ made.importance = 9999
    /\ made.result.panic = "nil"
    /\ made.result.level = [Label |-> "NOTICE", Importance |-> 9999]

\* the sensitive set of m names the empty key or a key absent from its context
NamesMissingKey(m) ==
    \E key \in DOMAIN m.sensitive : key = "" \/ key \notin DOMAIN m.context

\* C25: a pack failure writes nothing: for an entry whose sensitive set names
\* the empty key or a key absent from its context, Handle makes no call of
\* Write on the handler's destination, and the Handle of a handler whose
\* filters let the entry pass returns the "message lost" error.
C25_PackFailureWritesNothing ==
    \A t \in Threads : \A k \in DOMAIN wlog[t] :
        NamesMissingKey(Given(t)) =>
            /\ wlog[t][k].writes = <<>>
            /\ ~Rejects(HandlerAt(t, k), Given(t)) => wlog[t][k].result = "message lost"

\* values a sensitive key can have, and intensities WithSensitive can be given
SampleValues == {<<"b", "o", "b">>, <<"a", "m", "y">>, <<"x">>, <<>>}
SampleIntensities == {0, 1, 2}

\* the step is the Handle of the handler under key k for goroutine t
HandleStep(t, k) == k \notin DOMAIN wlog[t] /\ k \in DOMAIN wlog'[t]

\* data is the Context of a Write of mh.Handle(m): under every sensitive key it
\* has as many "?" as the value packFields found there has characters, and
\* nothing else; the entries that differ from m in the characters of a
\* sensitive value, or in an intensity, give the same data
Masked(mh, m, data) ==
    \A key \in DOMAIN m.sensitive :
        /\ key \in DOMAIN data
        /\ Len(data[key]) = Len(packCaller(Merged(mh, m))[key])
        /\ \A i \in 1..Len(data[key]) : data[key][i] = "?"
        /\ \A val \in SampleValues :
              (key \in DOMAIN m.context /\ Len(val) = Len(m.context[key])) =>
                  HandleData(mh, [m EXCEPT !.context[key] = val]) = data
        /\ \A paranoia \in SampleIntensities :
              HandleData(mh, [m EXCEPT !.sensitive[key] = paranoia]) = data

\* C26: for every entry and handler, what Handle writes under a sensitive key
\* is a mask of "?" only, as long as the rendering of the value it masks; two
\* entries that differ only in the characters of a sensitive value of the same
\* length are written the same, and so are two that differ only in an
\* intensity.
C26_Obfuscation ==
    [][\A t \in Threads, k \in Names :
          HandleStep(t, k) =>
              \A i \in 1..Len(wlog'[t][k].writes) :
                  Masked(HandlerAt(t, k), msg[t], wlog'[t][k].writes[i].Context)]_vars

\* an entry with the sensitive value "bob" was written with the mask "???"
C26_Witness ==
    \E k \in DOMAIN wlog["c1"] :
        /\ Given("c1").sensitive = Put(EmptyMap, "user", 1)
        /\ given["c1"] = Put(EmptyMap, "user", <<"b", "o", "b">>)
        /\ Len(wlog["c1"][k].writes) = 1
        /\ wlog["c1"][k].writes[1].Context["user"] = <<"?", "?", "?">>

\* C28: the logger built from the default configuration has exactly one
\* handler; it is registered under the empty name and writes to standard error
\* with the default formatter.
C28_DefaultHandler ==
    /\ \A hs \in New(DefaultConfiguration) :
          /\ DOMAIN hs = {""}
          /\ hs[""].writter = "stderr"
          /\ hs[""].formatter = "bf"
    /\ handlers[defaultSlogger] \in New(DefaultConfiguration)

\* the default logger as New built it, with its one handler
C28_Witness ==
    /\ Cardinality(DOMAIN handlers[defaultSlogger]) = 1
    /\ handlers[defaultSlogger][""] = WithFormatter(NewHandler("stderr"), "bf")
    /\ DefaultConfiguration.Handlers = EmptyMap

\* the step is the store of SetWriter by caller c (src/slogger.go:165)
SetWriterStep(c) == pc[c] = "sw_store" /\ pc'[c] = "idle"

\* C29: SetWriter(w) replaces only the destination of the handler under the
\* empty name: after it that handler writes to w and has the level range, the
\* formatter, the tag sets and the static fields it had before, and every other
\* handler is the one it was; no other step of SetWriter changes a handler.
C29_SetWriterReplacesDestinationOnly ==
    [][/\ \A c \in Callers :
             SetWriterStep(c) =>
                 handlers' = [handlers EXCEPT
                                 ![defaultSlogger][""].writter = entry[c].name]
       /\ (\A c \in Callers : ~SetWriterStep(c)) => handlers' = handlers]_vars

\* what the logging call of caller c hands back when it returns: the package
\* functions and the methods Trace..Fatal return nothing, Errorf returns an error
Returned(c) ==
    IF entry[c].api = "Errorf" THEN ErrorfResult(err[c])
    ELSE [err |-> "nil", wraps |-> "nil"]

\* C30: a delivery failure never reaches the code that logged the entry: what a
\* package-level logging function or a logger method (Trace..Fatal, Errorf)
\* returns carries no error of a handler and no "message lost" error of
\* processMessage.
C30_DeliveryFailuresStayInside ==
    \A c \in Callers :
        (pc[c] = "pm_ret" /\ entry[c].api \in {"func", "method", "Errorf"}) =>
            Returned(c).wraps = "nil"

\* C36: after New(cfg) with handlers in cfg.Handlers the handlers of the
\* logger are those of cfg.Handlers, each under its name, the one under the
\* empty name too, in whatever order New ranges over the map: a logger that
\* New can build from cfg has exactly cfg.Handlers.
C36_NewRegistersConfigured ==
    \A cfg \in Configurations :
        (cfg.Handlers # EmptyMap /\ handlers["B"] \in New(cfg)) =>
            handlers["B"] = cfg.Handlers

\* C37: a logger returned by New always has a handler: after New, and after
\* any SetWriter and logging calls, its handler map is not empty, and no
\* processMessage of it ends with "message lost: no handlers".
C37_HandlersNeverEmpty ==
    /\ \A l \in Loggers : handlers[l] # EmptyMap
    /\ \A cfg \in Configurations \cup {DefaultConfiguration} : EmptyMap \notin New(cfg)
    /\ \A t \in Threads : err[t] # "message lost: no handlers"

\* SetWriter has replaced the handler of the default logger, and a logging call
\* on it has then been through processMessage
C37_Witness ==
    /\ handlers[defaultSlogger][""].writter = "file"
    /\ \E c \in Callers :
          /\ pc[c] = "pm_ret"
          /\ lg[c] = defaultSlogger
          /\ wlog[c] # EmptyMap

\* C38: ProcessFile terminates on every file: it returns once the end of the
\* file is reached, also when values of the file fail to decode, and then
\* returns one formatted string for every value that decodes, in the order of
\* the file.
C38_ProcessFileTerminates ==
    <>(rpc = "returned" /\
         (rerr = "nil" => results = Formatted(file, Len(file))))

\* C33: the field information of a struct type is computed at most once, and
\* all calls of getFieldInfos for the type, first calls made by several
\* goroutines at the same time among them, return one and the same slice.
C33_FieldInfosComputedOnce ==
    \A t \in Types :
        IsStruct(t) =>
            /\ built[t] <= 1
            /\ Cardinality(returned[t]) <= 1

\* C31: a derivation (UpdateState, With, WithGroup, WithContextValue, Modify,
\* WithState) returns a new logger and leaves every logger there was with
\* its state pointer, group name, zero-field flag and underlying logger, so
\* that a log call on it emits the same records as before the derivation.
C31_DerivationLeavesOriginal ==
    [][Derivation =>
          /\ Len(statefuls') = Len(statefuls) + 1
          /\ \A i \in 1..Len(statefuls) :
                /\ statefuls'[i] = statefuls[i]
                /\ \A ctx \in LogContexts, args \in LogArgs :
                      logWithState(statefuls'[i], Deref(states', statefuls'[i].state),
                                   ctx, args)
                          = logWithState(statefuls[i], Deref(states, statefuls[i].state),
                                         ctx, args)]_vars

\* C31 witness: a logger with a struct state, a logger derived from it, and a
\* third derived from the second, the three different from one another
C31_Witness ==
    /\ Len(statefuls) = 3
    /\ statefuls[1].state # NilState
    /\ Deref(states, statefuls[1].state).kind = "struct"
    /\ statefuls[2] # statefuls[1]
    /\ statefuls[3] # statefuls[2]
    /\ statefuls[3] # statefuls[1]
    /\ statefuls[3].groupName = "who"
    /\ statefuls[2].includeZeroFields
    /\ ~statefuls[1].includeZeroFields

\* the record has a group under the state group's name with a member f
InStateGroup(r, name, f) ==
    \E j \in 1..Len(r.attrs) :
        /\ r.attrs[j].key = name
        /\ r.attrs[j].value.kind = "group"
        /\ \E k \in 1..Len(r.attrs[j].value.attrs) : r.attrs[j].value.attrs[k].key = f

HasStateGroup(r, name) ==
    \E j \in 1..Len(r.attrs) :
        r.attrs[j].key = name /\ r.attrs[j].value.kind = "group"

\* C32: a log call on a stateful logger emits exactly one record; with a
\* non-nil struct state, a field that getFieldInfos lists is in the state
\* group of the record if and only if it is non-zero or the include-zero flag
\* is set; with a nil state the record has no state group.
C32_ZeroFieldFiltering ==
    "out" \in DOMAIN emitted =>
        /\ Len(emitted.out) = 1
        /\ emitted.st.kind = "nil" =>
              ~HasStateGroup(emitted.out[1], stateTypeName(emitted.l, emitted.st))
        /\ emitted.st.kind = "struct" =>
              \A i \in 1..Len(FieldInfos) :
                  InStateGroup(emitted.out[1], stateTypeName(emitted.l, emitted.st),
                               FieldInfos[i])
                     <=> (~isZeroValue(emitted.st.fields[FieldInfos[i]])
                             \/ emitted.l.includeZeroFields)

\* C35: MakeStatefulWithContext leaves the caller's state value, and every
\* other state value, as it was; the new logger points to a copy at a new
\* address; in the copy a field that was non-zero has its value, a field
\* that differs from the original was zero and holds the context value stored
\* under its dotted name, and a zero field that getFieldInfos lists is filled
\* when the context has a string under its name.
C35_ContextFillsZeroFieldsOfCopy ==
    [][\A a \in 1..MaxStates, ctx \in StdContexts :
          MakeStatefulWithContextCall(a, ctx) =>
             /\ \A b \in 1..Len(states) : states'[b] = states[b]
             /\ statefuls'[Len(statefuls')].state = Len(states) + 1
             /\ states'[Len(states) + 1].kind = states[a].kind
             /\ states[a].kind = "struct" =>
                   \A f \in StateFields :
                      /\ ~isZeroValue(states[a].fields[f]) =>
                            states'[Len(states) + 1].fields[f] = states[a].fields[f]
                      /\ states'[Len(states) + 1].fields[f] # states[a].fields[f] =>
                            /\ isZeroValue(states[a].fields[f])
                            /\ states'[Len(states) + 1].fields[f] = Value(ctx, f)
                      /\ (/\ isZeroValue(states[a].fields[f])
                          /\ f \in {FieldInfos[i] : i \in 1..Len(FieldInfos)}
                          /\ Value(ctx, f) = "x") =>
                            states'[Len(states) + 1].fields[f] = "x"]_vars

\* C35 witness: a logger whose state is a copy in which the zero field
\* Address.City was filled from the context while the non-zero field Name kept
\* the caller's value
C35_Witness ==
    /\ Len(states) = 2
    /\ Len(statefuls) >= 1
    /\ statefuls[1].state = 2
    /\ states[1].kind = "struct"
    /\ states[1].fields["Name"] = "a"
    /\ states[1].fields["Address.City"] = ""
    /\ states[2].kind = "struct"
    /\ states[2].fields["Name"] = "a"
    /\ states[2].fields["Address.City"] = "x"

\* the attributes Handle added to the record r: those after r's own, or the
\* members of the one group after them
AddedAttrs(h, r, out) ==
    IF h.group = "" THEN SubSeq(out, Len(r) + 1, Len(out))
    ELSE IF Len(out) = Len(r) THEN <<>>
    ELSE out[Len(r) + 1].value.attrs

\* the configured fields whose extracted value is not nil
NonNilFields(h, ctx) == {i \in 1..Len(h.fields) : Extract(h.fields[i], ctx) # "nil"}

\* C34: Handle calls the wrapped handler once, with the record and its
\* attributes followed by one attribute per configured field whose value is
\* not nil and none for a nil value, inside one group of the handler's group
\* name when that is non-empty and at top level otherwise; WithAttrs and
\* WithGroup give a handler with the same fields and group.
C34_ExtractorHandle ==
    [][/\ (ExtractorWithAttrsCall(<<SlogAny("k", String("v"))>>)
              \/ ExtractorWithGroupCall("app")) =>
             /\ handler'.fields = handler.fields
             /\ handler'.group = handler.group
             /\ Len(handler'.next) = Len(handler.next) + 1
       /\ \A ctx \in StdContexts, r \in SampleRecords :
             HandleCall(ctx, r) =>
                /\ Len(handled'.out) = 1
                /\ SubSeq(handled'.out[1], 1, Len(r)) = r
                /\ handler.group # "" =>
                      /\ Len(handled'.out[1]) <= Len(r) + 1
                      /\ Len(handled'.out[1]) = Len(r) + 1 =>
                            /\ handled'.out[1][Len(r) + 1].key = handler.group
                            /\ handled'.out[1][Len(r) + 1].value.kind = "group"
                /\ Len(AddedAttrs(handler, r, handled'.out[1]))
                      = Cardinality(NonNilFields(handler, ctx))
                /\ \A i \in NonNilFields(handler, ctx) :
                      \E j \in 1..Len(AddedAttrs(handler, r, handled'.out[1])) :
                          AddedAttrs(handler, r, handled'.out[1])[j]
                              = SlogAny(handler.fields[i].Key,
                                        String(Extract(handler.fields[i], ctx)))]_vars

\* C34 witness: a handler with a group, derived by WithGroup and WithAttrs,
\* has handled a record for a context that has one of its two fields and
\* not the other
C34_Witness ==
    /\ "out" \in DOMAIN handled
    /\ Len(handled.h.next) = 2
    /\ handled.h.group = "ctx"
    /\ Len(handled.h.fields) = 2
    /\ Cardinality(NonNilFields(handled.h, handled.ctx)) = 1
    /\ handled.r # <<>>
    /\ Len(handled.out) = 1
    /\ Len(handled.out[1]) = Len(handled.r) + 1

====
